---- MODULE Spec2Model ----
(***************************************************************************)
(* Ownership conflict validation of forge_hooks                            *)
(* (src/src/forge_hooks/validators/ownership.py).                          *)
(*                                                                         *)
(* Text is a sequence of one-character strings.  None is Python's None.    *)
(* A dict is a sequence in insertion order: of records for the task        *)
(* registry, of <<key, value>> pairs for the maps of the rule engine.      *)
(***************************************************************************)
EXTENDS Naturals, Sequences, FiniteSets, TLC

VARIABLES
    scope1,      \* scopes_overlap: first argument
    scope2,      \* scopes_overlap: second argument
    overlap,     \* scopes_overlap: the value returned
    tasks,       \* the task registry: _parse_task_metadata's return value
    conflicts,   \* _validate_ownership_rules: the conflict list
    plan,        \* the sections the plan file was written from
    content,     \* the plan file's text
    plan_file,   \* the plan file on disk: "none", "unreadable", "undecodable", "readable"
    runs,        \* the HookResult of each validate() call on this plan, in call order
    pc,          \* "start" before the function under study has returned, "done" after
    scope_token, \* parse_scope: the argument file_str
    scope_parts, \* parse_scope: the pair returned
    hook_result, \* a HookResult whose properties are read
    hook_is_success, \* HookResult.is_success of hook_result
    hook_exit_code, \* HookResult.exit_code of hook_result
    directory,   \* the plan directory: "missing" or "exists"
    git,         \* what `git status --porcelain` does in this environment
    plan_age,    \* the plan file's modification time against max_age_minutes: "recent", "old"
    raised,      \* the exception that left the last call, "None" when it returned
    exits,       \* the outcome of each run of the validator as a process, in order
    session_files,    \* the sessions directory: file name -> session record
    stats_file,       \* session_stats.json
    projects_file,    \* projects.json: project slug -> project record
    clock,            \* datetime.now(), in seconds
    session_returned  \* what the last SessionManager call returned

scope_parse_vars == <<scope_token, scope_parts>>
hook_vars == <<hook_result, hook_is_success, hook_exit_code>>
env_vars == <<directory, git, plan_age>>
call_vars == <<raised, exits>>
session_vars == <<session_files, stats_file, projects_file, clock, session_returned>>

vars == <<scope1, scope2, overlap, tasks, conflicts, plan, content, plan_file, runs, pc,
          scope_parse_vars, hook_vars, env_vars, call_vars, session_vars>>

\* Python's None, where a text may stand: no text holds a four-character element.
None == <<"None">>

\* ------------------------------------------------------------------ bounds

MaxScopeLen == 3
MaxTasks == 2
MaxWaveTasks == 4
MaxSections == 2
MaxRuns == 2
MaxTokenLen == 5
MaxCliSections == 1
MaxIdSections == 2
MaxFieldSections == 2
MaxRepeatTasks == 2
MaxSessions == 2
MaxMarks == 2
MaxClock == 1

\* ------------------------------------------------------------------ text

Whitespace == {" ", "\n", "\t"}
Digits == {"0", "1", "2", "3", "4", "5", "6", "7", "8", "9"}
UpperCase == {"A", "B", "C", "D", "E", "F", "G", "H", "I", "J", "K", "L", "M",
              "N", "O", "P", "Q", "R", "S", "T", "U", "V", "W", "X", "Y", "Z"}

\* "task-" and the digit of n, 1 <= n <= 9.
DigitOf(n) == CHOOSE d \in Digits :
    <<n, d>> \in {<<0, "0">>, <<1, "1">>, <<2, "2">>, <<3, "3">>, <<4, "4">>,
                  <<5, "5">>, <<6, "6">>, <<7, "7">>, <<8, "8">>, <<9, "9">>}
TaskId(n) == <<"t", "a", "s", "k", "-", DigitOf(n)>>

Min(S) == CHOOSE x \in S : \A y \in S : x <= y
Max(S) == CHOOSE x \in S : \A y \in S : x >= y

\* s[i:] of Python, 1-based: the text from position i on.
From(s, i) == SubSeq(s, i, Len(s))

\* str.startswith at a position: lit is in s at position i.
MatchAt(s, i, lit) ==
    /\ i >= 1
    /\ i + Len(lit) - 1 <= Len(s)
    /\ \A k \in 1..Len(lit) : s[i + k - 1] = lit[k]

startswith(s, prefix) == MatchAt(s, 1, prefix)

\* The least position of from..to that passes Test; none when no position does.
FirstWhere(from, to, Test(_), none) ==
    IF \E i \in from..to : Test(i)
    THEN CHOOSE i \in from..to : Test(i) /\ \A j \in from..(i - 1) : ~Test(j)
    ELSE none

\* The first position >= from where lit is in s; 0 when there is none.
Find(s, lit, from) ==
    LET LitAt(i) == MatchAt(s, i, lit)
    IN  FirstWhere(from, Len(s) + 1 - Len(lit), LitAt, 0)

\* The first position >= from that holds no whitespace; Len(s) + 1 when all do.
SkipWhitespace(s, from) ==
    LET Stops(i) == s[i] \notin Whitespace
    IN  FirstWhere(from, Len(s), Stops, Len(s) + 1)

\* str.strip()
strip(s) ==
    LET keep == {i \in 1..Len(s) : s[i] \notin Whitespace}
    IN  IF keep = {} THEN <<>> ELSE SubSeq(s, Min(keep), Max(keep))

\* str.split(sep) for a one-character sep: the pieces, empty ones included.
RECURSIVE split(_, _)
split(s, sep) ==
    LET cut == Find(s, <<sep>>, 1)
    IN  IF cut = 0 THEN <<s>>
        ELSE <<SubSeq(s, 1, cut - 1)>> \o split(From(s, cut + 1), sep)

\* [f.strip() for f in text.split(",") if f.strip()]
RECURSIVE StripNonEmpty(_)
StripNonEmpty(pieces) ==
    IF pieces = <<>> THEN <<>>
    ELSE LET f == strip(Head(pieces))
         IN  (IF f = <<>> THEN <<>> ELSE <<f>>) \o StripNonEmpty(Tail(pieces))

RECURSIVE Concat(_)
Concat(ss) == IF ss = <<>> THEN <<>> ELSE Head(ss) \o Concat(Tail(ss))

\* The distinct elements of a sequence in the order they first occur: a dict's keys.
RECURSIVE Keys(_)
Keys(s) ==
    IF s = <<>> THEN <<>>
    ELSE LET init == Keys(SubSeq(s, 1, Len(s) - 1))
             last == s[Len(s)]
         IN  IF \E i \in 1..Len(init) : init[i] = last THEN init ELSE Append(init, last)

Range(s) == {s[i] : i \in 1..Len(s)}

\* ------------------------------------------------------------ scope model

\* A plausible slip of parse_scope: the split is made at the last "::" (rsplit).
parse_scope_last_delimiter(file_str) ==
    LET ats == {k \in 1..Len(file_str) : MatchAt(file_str, k, <<":", ":">>)}
        at == IF ats = {} THEN 0 ELSE Max(ats)
    IN  IF at # 0
        THEN <<strip(SubSeq(file_str, 1, at - 1)), strip(From(file_str, at + 2))>>
        ELSE <<strip(file_str), None>>

\* parse_scope: (filename, scope), split at the first "::", both halves stripped.
parse_scope(file_str) ==
    LET at == Find(file_str, <<":", ":">>, 1)
    IN  IF at # 0
        THEN <<strip(SubSeq(file_str, 1, at - 1)), strip(From(file_str, at + 2))>>
        ELSE <<strip(file_str), None>>

\* A plausible slip of scopes_overlap: nesting tested without the "." boundary.
scopes_overlap_char_prefix(s1, s2) ==
    \/ s1 = None \/ s2 = None
    \/ s1 = s2
    \/ startswith(s1, s2) \/ startswith(s2, s1)

scopes_overlap(s1, s2) ==
    IF s1 = None \/ s2 = None THEN TRUE
    ELSE IF s1 = s2 THEN TRUE
    ELSE IF startswith(s1, s2 \o <<".">>) \/ startswith(s2, s1 \o <<".">>) THEN TRUE
    ELSE FALSE

\* ------------------------------------------------------------ rule engine

\* A task of the registry: [id, wave, create, modify, boundary], the three lists
\* sequences of resource tokens (texts).
Task(id, wave, create, modify, boundary) ==
    [id |-> id, wave |-> wave, create |-> create, modify |-> modify, boundary |-> boundary]

\* f"::{scope}" if scope else " (unscoped)": None and "" are both falsy.
scope_str(scope) ==
    IF scope # None /\ scope # <<>>
    THEN <<":", ":">> \o scope
    ELSE <<" ", "(", "u", "n", "s", "c", "o", "p", "e", "d", ")">>

\* The values a dict of lists holds for key k, given what was appended as
\* <<key, value>> pairs in order.
ValuesOf(pairs, k) ==
    LET hit(p) == p[1] = k
        sel == SelectSeq(pairs, hit)
    IN  [i \in 1..Len(sel) |-> sel[i][2]]

FirstOf(pairs) == [i \in 1..Len(pairs) |-> pairs[i][1]]

\* for i in range(n): for j in range(i + 1, n): the index pairs in loop order.
IndexPairs(n) == Concat([i \in 1..n |-> [k \in 1..(n - i) |-> <<i, i + k>>]])

\* Rule 1: create_map, file -> task ids that CREATE it, then one conflict per file
\* with more than one entry.
\* A plausible slip of Rule 1: the CREATE entries compared with their sub-scope left on.
create_pairs_unparsed(ts) ==
    Concat([t \in 1..Len(ts) |->
        [c \in 1..Len(ts[t].create) |-> <<ts[t].create[c], ts[t].id>>]])

create_pairs(ts) ==
    Concat([t \in 1..Len(ts) |->
        [c \in 1..Len(ts[t].create) |-> <<parse_scope(ts[t].create[c])[1], ts[t].id>>]])

rule1_conflicts(ts) ==
    LET pairs == create_pairs(ts)
        files == Keys(FirstOf(pairs))
    IN  Concat([f \in 1..Len(files) |->
            LET task_ids == ValuesOf(pairs, files[f])
            IN  IF Len(task_ids) > 1
                THEN <<[rule |-> "1", file |-> files[f], task_ids |-> task_ids]>>
                ELSE <<>>])

\* A plausible slip of the grouping: every task is put in the first task's wave.
wave_pairs_one_wave(ts) == [t \in 1..Len(ts) |-> <<ts[1].wave, ts[t].id>>]

\* waves: wave -> task ids, keyed in the order the waves first occur.
wave_pairs(ts) == [t \in 1..Len(ts) |-> <<ts[t].wave, ts[t].id>>]

task_by_id(ts, id) == ts[CHOOSE t \in 1..Len(ts) : ts[t].id = id]

\* modify_map of one wave: file -> (task id, scope) of the wave's tasks.
modify_pairs(ts, task_ids) ==
    Concat([k \in 1..Len(task_ids) |->
        LET task == task_by_id(ts, task_ids[k])
        IN  [m \in 1..Len(task.modify) |->
                <<parse_scope(task.modify[m])[1],
                  <<task.id, parse_scope(task.modify[m])[2]>>>>]])

\* A plausible slip of Rules 2 and 3: every pair of modifiers of a file conflicts,
\* whatever the scopes.
modifier_conflicts_any_scope(wave, filename, modifiers) ==
    LET ij == IndexPairs(Len(modifiers))
    IN  [p \in 1..Len(ij) |->
            LET m1 == modifiers[ij[p][1]]
                m2 == modifiers[ij[p][2]]
            IN  [rule |-> "2/3", task1 |-> m1[1], task2 |-> m2[1], wave |-> wave,
                 filename |-> filename,
                 scope1_str |-> scope_str(m1[2]), scope2_str |-> scope_str(m2[2])]]

\* The pairs of one file's modifiers whose scopes overlap, in index order.
modifier_conflicts(wave, filename, modifiers) ==
    LET ij == IndexPairs(Len(modifiers))
    IN  Concat([p \in 1..Len(ij) |->
            LET m1 == modifiers[ij[p][1]]
                m2 == modifiers[ij[p][2]]
            IN  IF scopes_overlap(m1[2], m2[2])
                THEN <<[rule |-> "2/3", task1 |-> m1[1], task2 |-> m2[1], wave |-> wave,
                        filename |-> filename,
                        scope1_str |-> scope_str(m1[2]), scope2_str |-> scope_str(m2[2])]>>
                ELSE <<>>])

wave_conflicts(ts, wave, task_ids) ==
    IF Len(task_ids) < 2 THEN <<>>
    ELSE LET pairs == modify_pairs(ts, task_ids)
             files == Keys(FirstOf(pairs))
         IN  Concat([f \in 1..Len(files) |->
                 LET modifiers == ValuesOf(pairs, files[f])
                 IN  IF Len(modifiers) < 2 THEN <<>>
                     ELSE modifier_conflicts(wave, files[f], modifiers)])

\* Rules 2 and 3 with the waves walked in ascending order of their numbers.
RECURSIVE SortedSeq(_)
SortedSeq(S) == IF S = {} THEN <<>> ELSE <<Min(S)>> \o SortedSeq(S \ {Min(S)})

rule23_conflicts_sorted_waves(ts) ==
    LET pairs == wave_pairs(ts)
        waves == SortedSeq(Range(FirstOf(pairs)))
    IN  Concat([w \in 1..Len(waves) |->
            wave_conflicts(ts, waves[w], ValuesOf(pairs, waves[w]))])

\* Rules 2 and 3: the waves in the order of the waves dict.
rule23_conflicts(ts) ==
    LET pairs == wave_pairs(ts)
        waves == Keys(FirstOf(pairs))
    IN  Concat([w \in 1..Len(waves) |->
            wave_conflicts(ts, waves[w], ValuesOf(pairs, waves[w]))])

\* A plausible slip of Rule 4: the MODIFY entries compared with their sub-scope left on.
boundary_violations_unparsed(task) ==
    Range(task.modify) \cap {parse_scope(task.boundary[b])[1] : b \in 1..Len(task.boundary)}

\* A plausible slip of Rule 4: the CREATE entries are held against the BOUNDARY
\* as the MODIFY entries are.
boundary_violations_with_create(task) ==
    ({parse_scope(task.modify[m])[1] : m \in 1..Len(task.modify)}
        \cup {parse_scope(task.create[c])[1] : c \in 1..Len(task.create)})
        \cap {parse_scope(task.boundary[b])[1] : b \in 1..Len(task.boundary)}

\* Rule 4: modify_files & boundary_files of one task, a set of str.
boundary_violations(task) ==
    {parse_scope(task.modify[m])[1] : m \in 1..Len(task.modify)}
        \cap {parse_scope(task.boundary[b])[1] : b \in 1..Len(task.boundary)}

\* ', '.join(violations) walks a set of str: the order is that of the strings'
\* hashes, which the interpreter salts anew in every process.  A hash order is a
\* sequence holding every name once; a set is walked in that order.
HashOrders(S) ==
    {h \in [1..Cardinality(S) -> S] : \A x \in S : \E i \in 1..Cardinality(S) : h[i] = x}

set_iteration(S, hash_order) ==
    LET in_set(x) == x \in S
    IN  SelectSeq(hash_order, in_set)

all_boundary_violations(ts) == UNION {boundary_violations(ts[t]) : t \in 1..Len(ts)}

rule4_conflicts(ts, hash_order) ==
    Concat([t \in 1..Len(ts) |->
        LET violations == boundary_violations(ts[t])
        IN  IF violations # {}
            THEN <<[rule |-> "4", task_id |-> ts[t].id,
                    violations |-> set_iteration(violations, hash_order)]>>
            ELSE <<>>])

\* A plausible slip of the rule engine: return at the first rule that finds conflicts.
validate_ownership_rules_short_circuit(ts, hash_order) ==
    IF rule1_conflicts(ts) # <<>> THEN rule1_conflicts(ts)
    ELSE IF rule23_conflicts(ts) # <<>> THEN rule23_conflicts(ts)
    ELSE rule4_conflicts(ts, hash_order)

\* _validate_ownership_rules: the conflict list (success is that it is empty).
validate_ownership_rules(ts, hash_order) ==
    rule1_conflicts(ts) \o rule23_conflicts(ts) \o rule4_conflicts(ts, hash_order)

\* ------------------------------------------------------------ plan parser

Heading == <<"#", "#", "#">>
TaskIdLabel == <<"*", "*", "T", "a", "s", "k", " ", "I", "D", ":", "*", "*", " ">>
TaskPrefix == <<"t", "a", "s", "k", "-">>
TaskIdField == TaskIdLabel \o TaskPrefix
WaveField == <<"*", "*", "W", "a", "v", "e", ":", "*", "*", " ">>
OwnershipField == <<"*", "*", "F", "i", "l", "e", " ", "O", "w", "n", "e", "r", "s", "h", "i", "p", ":", "*", "*">>
FieldStart == <<"*", "*">>
CreateEntry == <<"-", " ", "C", "R", "E", "A", "T", "E", ":">>
ModifyEntry == <<"-", " ", "M", "O", "D", "I", "F", "Y", ":">>
BoundaryEntry == <<"-", " ", "B", "O", "U", "N", "D", "A", "R", "Y", ":">>
EntryDash == "-"

\* The first position >= from that holds no digit: where a greedy \d+ ends.
SkipDigits(s, from) ==
    LET Stops(i) == s[i] \notin Digits
    IN  FirstWhere(from, Len(s), Stops, Len(s) + 1)

DigitValue(d) == CHOOSE n \in 0..9 : DigitOf(n) = d

\* int(wave_str), and 0 where int raises ValueError.
RECURSIVE int(_)
int(digits) ==
    IF digits = <<>> THEN 0
    ELSE 10 * int(SubSeq(digits, 1, Len(digits) - 1)) + DigitValue(digits[Len(digits)])

int_or_zero(wave_str) ==
    IF wave_str # <<>> /\ \A i \in 1..Len(wave_str) : wave_str[i] \in Digits
    THEN int(wave_str)
    ELSE 0

\* A plausible slip of the wave text: the marker letter is left in place.
keep_W(s) == s

\* str.replace("W", "")
remove_W(s) == LET keep(c) == c # "W" IN SelectSeq(s, keep)

\* "\n**Task ID:** task-" and a digit are at position q.
TaskIdAt(s, q) ==
    /\ MatchAt(s, q, <<"\n">> \o TaskIdField)
    /\ q + Len(TaskIdField) + 1 <= Len(s)
    /\ s[q + Len(TaskIdField) + 1] \in Digits

\* "**Wave:** " and then \d+ or W\d+ are at position w.
WaveAt(s, w) ==
    LET c == w + Len(WaveField)
    IN  /\ MatchAt(s, w, WaveField)
        /\ c <= Len(s)
        /\ \/ s[c] \in Digits
           \/ s[c] = "W" /\ c + 1 <= Len(s) /\ s[c + 1] \in Digits

\* One attempt of task_pattern at position p:
\*   ###[#]?\s+.*?\n\*\*Task ID:\*\* (task-\d+).*?\*\*Wave:\*\* (\d+|W\d+).*?(?=###[#]?|\Z)
\* with DOTALL.  The match is [ok, start, end, task_id, wave_str] and covers
\* start..end - 1.
NoMatch(p) == [ok |-> FALSE, start |-> p, end |-> p, task_id |-> <<>>, wave_str |-> <<>>]

\* .*?(?=###[#]?|\Z) from wave_end, where (\d+|W\d+) ended.
task_match_end(s, p, q, id_end, c, wave_end, next) ==
    [ok |-> TRUE, start |-> p,
     end |-> IF next = 0 THEN Len(s) + 1 ELSE next,
     task_id |-> SubSeq(s, q + 1 + Len(TaskIdLabel), id_end - 1),
     wave_str |-> SubSeq(s, c, wave_end - 1)]

\* (\d+|W\d+) at c, after the wave field found at w.
task_match_wave(s, p, q, id_end, c) ==
    LET wave_end == IF s[c] = "W" THEN SkipDigits(s, c + 1) ELSE SkipDigits(s, c)
    IN  task_match_end(s, p, q, id_end, c, wave_end, Find(s, Heading, wave_end))

\* The first wave field after the identifier that ends before id_end; 0 when none.
wave_after(s, id_end) ==
    LET WvAt(w) == WaveAt(s, w)
    IN  FirstWhere(id_end, Len(s), WvAt, 0)

\* \s+ takes the whole run of whitespace first and the lazy .*? the first
\* identifier field after it (q_lazy); only when no wave field follows that one
\* does \s+ give back its last character, so that an identifier field right
\* after the whitespace (q_back) is tried.
task_match_id(s, p, q_lazy, w_lazy, q_back, w_back) ==
    IF q_lazy # 0 /\ w_lazy # 0
    THEN task_match_wave(s, p, q_lazy, SkipDigits(s, q_lazy + Len(TaskIdField) + 1),
                         w_lazy + Len(WaveField))
    ELSE IF q_back # 0 /\ w_back # 0
    THEN task_match_wave(s, p, q_back, SkipDigits(s, q_back + Len(TaskIdField) + 1),
                         w_back + Len(WaveField))
    ELSE NoMatch(p)

task_match_fields(s, p, q_lazy, q_back) ==
    task_match_id(s, p,
        q_lazy,
        IF q_lazy = 0 THEN 0 ELSE wave_after(s, SkipDigits(s, q_lazy + Len(TaskIdField) + 1)),
        q_back,
        IF q_back = 0 THEN 0 ELSE wave_after(s, SkipDigits(s, q_back + Len(TaskIdField) + 1)))

task_match_heading(s, p, ws_start, ws_end) ==
    LET IdAt(q) == TaskIdAt(s, q)
    IN  task_match_fields(s, p,
            FirstWhere(ws_end, Len(s), IdAt, 0),
            IF ws_end - 1 > ws_start /\ IdAt(ws_end - 1) THEN ws_end - 1 ELSE 0)

task_match_ws(s, p, ws_start) ==
    IF ws_start <= Len(s) /\ s[ws_start] \in Whitespace
    THEN task_match_heading(s, p, ws_start, SkipWhitespace(s, ws_start))
    ELSE NoMatch(p)

task_match(s, p) ==
    IF MatchAt(s, p, Heading)
    THEN task_match_ws(s, p, IF p + 3 <= Len(s) /\ s[p + 3] = "#" THEN p + 4 ELSE p + 3)
    ELSE NoMatch(p)

\* re.finditer(task_pattern, content, re.DOTALL): the matches from position from
\* on, leftmost first, each search resuming where the last match ended.
RECURSIVE finditer(_, _)
finditer(s, from) ==
    LET Ok(p) == task_match(s, p).ok
        Rest(match) == <<match>> \o finditer(s, match.end)
        p == FirstWhere(from, Len(s), Ok, 0)
    IN  IF p = 0 THEN <<>> ELSE Rest(task_match(s, p))

\* ownership_pattern: \*\*File Ownership:\*\*(.*?)(?=\n\*\*[A-Z]|\Z), group 1;
\* None when the section has no ownership field.
ownership_text(task_content) ==
    LET o == Find(task_content, OwnershipField, 1)
        start == o + Len(OwnershipField)
        Stop(r) == /\ MatchAt(task_content, r, <<"\n">> \o FieldStart)
                   /\ r + 3 <= Len(task_content)
                   /\ task_content[r + 3] \in UpperCase
        stop == FirstWhere(start, Len(task_content), Stop, Len(task_content) + 1)
    IN  IF o = 0 THEN None ELSE SubSeq(task_content, start, stop - 1)

\* "\n", any whitespace, "-" are at position r: the lookahead \n\s*-
NextEntryAt(text, r) ==
    /\ r <= Len(text)
    /\ text[r] = "\n"
    /\ SkipWhitespace(text, r + 1) <= Len(text)
    /\ text[SkipWhitespace(text, r + 1)] = EntryDash

\* The files of one entry of the ownership block:
\*   - CREATE:\s*(.*?)(?=\n\s*-|\Z)    (BOUNDARY also stops at \n\*\*)
\* then strip, the test for "" and "-", and the split at commas.  \s* runs over
\* line breaks too, so the value starts at the first character that is no whitespace.
entry_files(text, entry, stops_at_field) ==
    LET k == Find(text, entry, 1)
        start == SkipWhitespace(text, k + Len(entry))
        Stop(r) == \/ NextEntryAt(text, r)
                   \/ stops_at_field /\ MatchAt(text, r, <<"\n">> \o FieldStart)
        stop == FirstWhere(start, Len(text), Stop, Len(text) + 1)
        value == strip(SubSeq(text, start, stop - 1))
    IN  IF k = 0 THEN <<>>
        ELSE IF value # <<>> /\ value # <<EntryDash>> THEN StripNonEmpty(split(value, ","))
        ELSE <<>>

\* The record one match of task_pattern puts in the registry.
parsed_task(s, match) ==
    LET text == ownership_text(SubSeq(s, match.start, match.end - 1))
    IN  Task(match.task_id, int_or_zero(remove_W(match.wave_str)),
             IF text = None THEN <<>> ELSE entry_files(text, CreateEntry, FALSE),
             IF text = None THEN <<>> ELSE entry_files(text, ModifyEntry, FALSE),
             IF text = None THEN <<>> ELSE entry_files(text, BoundaryEntry, TRUE))

\* A plausible slip of the registry: a known key keeps its first record
\* (dict.setdefault).
dict_setdefault(ts, task) ==
    IF \E t \in 1..Len(ts) : ts[t].id = task.id THEN ts ELSE Append(ts, task)

\* tasks[task_id] = {...}: a new key goes last, a known key keeps its place.
dict_set(ts, task) ==
    IF \E t \in 1..Len(ts) : ts[t].id = task.id
    THEN [t \in 1..Len(ts) |-> IF ts[t].id = task.id THEN task ELSE ts[t]]
    ELSE Append(ts, task)

\* A plausible slip of the parser: a section without an ownership block is
\* skipped, so its task is missing from the registry.
RECURSIVE registry_of_owned_only(_, _)
registry_of_owned_only(s, matches) ==
    IF matches = <<>> THEN <<>>
    ELSE LET init == registry_of_owned_only(s, SubSeq(matches, 1, Len(matches) - 1))
             last == matches[Len(matches)]
         IN  IF ownership_text(SubSeq(s, last.start, last.end - 1)) = None
             THEN init
             ELSE dict_set(init, parsed_task(s, last))

RECURSIVE registry_of(_, _)
registry_of(s, matches) ==
    IF matches = <<>> THEN <<>>
    ELSE dict_set(registry_of(s, SubSeq(matches, 1, Len(matches) - 1)),
                  parsed_task(s, matches[Len(matches)]))

\* _parse_task_metadata: the registry, task_id -> {wave, create, modify, boundary}.
parse_task_metadata(s) == registry_of(s, finditer(s, 1))

\* ------------------------------------------------------- file discovery

\* What `git status --porcelain <directory>/` does: "untracked" (exit 0, the plan
\* file listed as new), "clean" (exit 0, the plan file not listed), "failing"
\* (non-zero exit), "timeout" (TimeoutExpired), "unavailable" (no git executable:
\* subprocess.run raises FileNotFoundError).
GitStates == {"untracked", "clean", "failing", "timeout", "unavailable"}

\* get_git_untracked_files: the paths returned, or the exception that leaves it.
\* TimeoutExpired and SubprocessError are caught; FileNotFoundError is an OSError
\* and is not.
get_git_untracked_files(git_state) ==
    CASE git_state = "unavailable" -> [raised |-> "FileNotFoundError", files |-> {}]
      [] git_state = "untracked" -> [raised |-> "None", files |-> {"plan"}]
      [] OTHER -> [raised |-> "None", files |-> {}]

\* get_recent_files: the files of the directory not older than max_age_minutes.
get_recent_files(dir_state, file_state, age) ==
    IF dir_state = "missing" THEN {}
    ELSE IF file_state # "none" /\ age = "recent" THEN {"plan"}
    ELSE {}

\* find_newest_file: the newest of the git-new and the recent files that exists,
\* "None" when there is none; or the exception of get_git_untracked_files.
find_newest_file(git_state, dir_state, file_state, age) ==
    LET git_new == get_git_untracked_files(git_state)
        all_files == git_new.files \cup get_recent_files(dir_state, file_state, age)
    IN  IF git_new.raised # "None" THEN [raised |-> git_new.raised, newest |-> "None"]
        ELSE IF all_files = {} THEN [raised |-> "None", newest |-> "None"]
        ELSE [raised |-> "None",
              newest |-> IF file_state # "none" THEN "plan" ELSE "None"]

\* -------------------------------------------------------------- validate

\* HookResult(ok, result, message, reason); message and reason are records, of
\* kind "None" for None, with the values the format strings are filled with.
NoText == [kind |-> "None", n_tasks |-> 0, items |-> <<>>, cause |-> "None"]
NO_FILE_ERROR == "VALIDATION FAILED: No plan file found matching {pattern}."

\* Path(newest_file).read_text(encoding="utf-8"): the exception it raises, "None"
\* when it returns the text.
read_text(file_state) ==
    CASE file_state = "unreadable" -> "OSError"
      [] file_state = "undecodable" -> "UnicodeDecodeError"
      [] OTHER -> "None"

\* f"Failed to read plan file {newest_file}: {e}"
read_failure(file_state) ==
    [NoText EXCEPT !.kind = "Failed to read plan file", !.cause = read_text(file_state)]
HookResult(ok, result, message, reason) ==
    [ok |-> ok, result |-> result, message |-> message, reason |-> reason]

\* A plausible slip of exit_code: the code follows the ok field.
exit_code_by_ok(self) == IF self.ok THEN 0 ELSE 1

\* v is None, for the value of field k: ok is a bool and result a str, message
\* and reason are Optional[str].
is_None(self, k) == k \in {"message", "reason"} /\ self[k] = NoText

\* A plausible slip of to_dict: plain asdict, the None values kept.
to_dict_keeps_none(self) == [k \in {"ok", "result", "message", "reason"} |-> self[k]]

\* HookResult.to_dict: {k: v for k, v in asdict(self).items() if v is not None}
to_dict(self) ==
    [k \in {f \in {"ok", "result", "message", "reason"} : ~is_None(self, f)} |-> self[k]]

\* HookResult.is_success and HookResult.exit_code
is_success(self) == self.result = "continue"
exit_code(self) == IF is_success(self) THEN 0 ELSE 1

\* "\n".join(f"  - {c}" for c in conflicts)
conflicts_text(cs) == [i \in 1..Len(cs) |-> [bullet |-> "  - ", conflict |-> cs[i]]]

\* The values of the variables a specification does not use.
ScopeParseIdle == scope_token = <<>> /\ scope_parts = <<>>
HookIdle ==
    /\ hook_result = HookResult(TRUE, "continue", NoText, NoText)
    /\ hook_is_success = FALSE
    /\ hook_exit_code = 0
EnvIdle == directory = "missing" /\ git = "clean" /\ plan_age = "old"
CallsIdle == raised = "None" /\ exits = <<>>

\* A plausible slip of validate: the pass message counts the conflicts, not the
\* tasks, and a plan whose only conflicts are Rule 4 violations passes.
validate_lenient(file_state, ts, hash_order) ==
    LET cs == validate_ownership_rules(ts, hash_order)
        not4(c) == c.rule # "4"
    IN  IF file_state = "none"
        THEN HookResult(TRUE, "block", NoText, [NoText EXCEPT !.kind = NO_FILE_ERROR])
        ELSE IF read_text(file_state) # "None"
        THEN HookResult(TRUE, "block", NoText, read_failure(file_state))
        ELSE IF ts = <<>>
        THEN HookResult(TRUE, "continue", [NoText EXCEPT !.kind = "No tasks found (nothing to validate)"], NoText)
        ELSE IF SelectSeq(cs, not4) = <<>>
        THEN HookResult(TRUE, "continue",
                        [NoText EXCEPT !.kind = "File ownership validation passed",
                                       !.n_tasks = Len(cs)], NoText)
        ELSE HookResult(TRUE, "block", NoText,
                        [NoText EXCEPT !.kind = "OWNERSHIP_CONFLICT_ERROR",
                                       !.items = conflicts_text(cs)])

\* A plausible slip of validate: an empty registry is reported as a failure.
validate_no_tasks_blocks(file_state, ts, hash_order) ==
    LET cs == validate_ownership_rules(ts, hash_order)
    IN  IF file_state = "none"
        THEN HookResult(TRUE, "block", NoText, [NoText EXCEPT !.kind = NO_FILE_ERROR])
        ELSE IF read_text(file_state) # "None"
        THEN HookResult(TRUE, "block", NoText, read_failure(file_state))
        ELSE IF ts = <<>> \/ cs # <<>>
        THEN HookResult(TRUE, "block", NoText,
                        [NoText EXCEPT !.kind = "OWNERSHIP_CONFLICT_ERROR",
                                       !.items = conflicts_text(cs)])
        ELSE HookResult(TRUE, "continue",
                        [NoText EXCEPT !.kind = "File ownership validation passed",
                                       !.n_tasks = Len(ts)], NoText)

\* A plausible slip of validate: no plan file is treated like a plan without
\* tasks, a pass with nothing to validate.
validate_no_file_passes(file_state, ts, hash_order) ==
    LET cs == validate_ownership_rules(ts, hash_order)
    IN  IF file_state = "none"
        THEN HookResult(TRUE, "continue", [NoText EXCEPT !.kind = "No tasks found (nothing to validate)"], NoText)
        ELSE IF read_text(file_state) # "None"
        THEN HookResult(TRUE, "block", NoText, read_failure(file_state))
        ELSE IF ts = <<>>
        THEN HookResult(TRUE, "continue", [NoText EXCEPT !.kind = "No tasks found (nothing to validate)"], NoText)
        ELSE IF Len(cs) = 0
        THEN HookResult(TRUE, "continue",
                        [NoText EXCEPT !.kind = "File ownership validation passed",
                                       !.n_tasks = Len(ts)], NoText)
        ELSE HookResult(TRUE, "block", NoText,
                        [NoText EXCEPT !.kind = "OWNERSHIP_CONFLICT_ERROR",
                                       !.items = conflicts_text(cs)])

\* A plausible slip of validate: an empty registry passes with the ordinary pass
\* message and a count of zero tasks.
validate_no_tasks_counted(file_state, ts, hash_order) ==
    LET cs == validate_ownership_rules(ts, hash_order)
    IN  IF file_state = "none"
        THEN HookResult(TRUE, "block", NoText, [NoText EXCEPT !.kind = NO_FILE_ERROR])
        ELSE IF read_text(file_state) # "None"
        THEN HookResult(TRUE, "block", NoText, read_failure(file_state))
        ELSE IF Len(cs) = 0
        THEN HookResult(TRUE, "continue",
                        [NoText EXCEPT !.kind = "File ownership validation passed",
                                       !.n_tasks = Len(ts)], NoText)
        ELSE HookResult(TRUE, "block", NoText,
                        [NoText EXCEPT !.kind = "OWNERSHIP_CONFLICT_ERROR",
                                       !.items = conflicts_text(cs)])

\* A plausible slip of validate: the reason of a read failure leaves out the
\* exception.
validate_cause_dropped(file_state, ts, hash_order) ==
    LET cs == validate_ownership_rules(ts, hash_order)
    IN  IF file_state = "none"
        THEN HookResult(TRUE, "block", NoText, [NoText EXCEPT !.kind = NO_FILE_ERROR])
        ELSE IF read_text(file_state) # "None"
        THEN HookResult(TRUE, "block", NoText,
                        [NoText EXCEPT !.kind = "Failed to read plan file"])
        ELSE IF ts = <<>>
        THEN HookResult(TRUE, "continue", [NoText EXCEPT !.kind = "No tasks found (nothing to validate)"], NoText)
        ELSE IF Len(cs) = 0
        THEN HookResult(TRUE, "continue",
                        [NoText EXCEPT !.kind = "File ownership validation passed",
                                       !.n_tasks = Len(ts)], NoText)
        ELSE HookResult(TRUE, "block", NoText,
                        [NoText EXCEPT !.kind = "OWNERSHIP_CONFLICT_ERROR",
                                       !.items = conflicts_text(cs)])

\* FileOwnershipValidator.validate.  file_state is what find_newest_file and
\* read_text meet: "none" (no plan file found), "unreadable" (OSError),
\* "undecodable" (UnicodeDecodeError), "readable"; ts is
\* self._parse_task_metadata(content) of the text read.
validate(file_state, ts, hash_order) ==
    LET cs == validate_ownership_rules(ts, hash_order)
    IN  IF file_state = "none"
        THEN HookResult(TRUE, "block", NoText, [NoText EXCEPT !.kind = NO_FILE_ERROR])
        ELSE IF read_text(file_state) # "None"
        THEN HookResult(TRUE, "block", NoText, read_failure(file_state))
        ELSE IF ts = <<>>
        THEN HookResult(TRUE, "continue", [NoText EXCEPT !.kind = "No tasks found (nothing to validate)"], NoText)
        ELSE IF Len(cs) = 0
        THEN HookResult(TRUE, "continue",
                        [NoText EXCEPT !.kind = "File ownership validation passed",
                                       !.n_tasks = Len(ts)], NoText)
        ELSE HookResult(TRUE, "block", NoText,
                        [NoText EXCEPT !.kind = "OWNERSHIP_CONFLICT_ERROR",
                                       !.items = conflicts_text(cs)])

\* ----------------------------------------------------------- session store

\* SessionManager.initialize on an empty learnings directory: no session file,
\* no project, and the statistics at zero.
NoFiles == <<>>
InitialStats == [total |-> 0, processed |-> 0, by_project |-> NoFiles, last_session |-> "None"]
SessionsIdle ==
    /\ session_files = NoFiles
    /\ stats_file = InitialStats
    /\ projects_file = NoFiles
    /\ clock = 0
    /\ session_returned = "None"

\* dict.get(key, default)
get(dict, key, default) == IF key \in DOMAIN dict THEN dict[key] ELSE default
\* dict[key] = value
put(dict, key, value) == (key :> value) @@ dict

\* The session of a hook: the first eight characters of its identifier and the
\* rest of it, and the directory it ran in.
SessionIds == {<<"aaaaaaaa", "1">>, <<"aaaaaaaa", "2">>, <<"bbbbbbbb", "1">>}
Cwds == {"/w/App", "/w/app", "/w/lib"}

\* SessionManager.get_project_slug: the directory's name in lower case.
get_project_slug(cwd) == IF cwd = "/w/lib" THEN "lib" ELSE "app"

\* SessionManager.register_project: the projects with cwd's project registered.
register_project(projects, cwd) ==
    IF get_project_slug(cwd) \notin DOMAIN projects
    THEN put(projects, get_project_slug(cwd), [path |-> cwd, session_count |-> 0])
    ELSE projects

\* f"{date_str}-{project_slug}-{session_id[:8]}.json"
session_filename(now, project_slug, session_id) == <<now, project_slug, session_id[1]>>

\* SessionStats.update
SessionStats_update(self, project, captured_at) ==
    [self EXCEPT !.total = self.total + 1,
                 !.by_project = put(self.by_project, project, get(self.by_project, project, 0) + 1),
                 !.last_session = captured_at]

\* SessionStats.mark_processed
SessionStats_mark_processed(self) == [self EXCEPT !.processed = self.processed + 1]

\* ------------------------------------------------- the rule engine alone

File_f == <<"f">>
File_g == <<"g">>
ClassA == <<"A">>
ClassB == <<"B">>
MethodX == <<"A", ".", "x">>
MethodY == <<"A", ".", "y">>
Scoped(file, scope) == file \o <<":", ":">> \o scope

WaveNumbers == {1, 2}
ModifyLists == {<<>>, <<File_f>>, <<Scoped(File_f, ClassA)>>, <<Scoped(File_f, MethodX)>>,
                <<Scoped(File_f, MethodY), File_g>>}
\* A CREATE list with the BOUNDARY list that goes with it.
CreateBoundaryLists == {<< <<>>, <<>> >>,
                        << <<File_f>>, <<>> >>,
                        << <<Scoped(File_f, ClassA), File_g>>, <<File_g, File_f>> >>}
RuleDecls ==
    {[wave |-> w, create |-> cb[1], modify |-> m, boundary |-> cb[2]] :
        w \in WaveNumbers, m \in ModifyLists, cb \in CreateBoundaryLists}

\* A registry of n tasks: the ids in ascending or in descending order of their
\* numbers (a dict keeps the order of the plan's sections, whatever the ids).
Registry(n, up, decl) ==
    [t \in 1..n |-> Task(TaskId(IF up THEN t ELSE n + 1 - t), decl[t].wave,
                         decl[t].create, decl[t].modify, decl[t].boundary)]

InitEngine(max_tasks, Decls) ==
    /\ \E n \in 0..max_tasks, up \in BOOLEAN :
           \E decl \in [1..n -> Decls] : tasks = Registry(n, up, decl)
    /\ conflicts = <<>>
    /\ pc = "start"
    /\ scope1 = None
    /\ scope2 = None
    /\ overlap = FALSE
    /\ plan = <<>>
    /\ content = <<>>
    /\ plan_file = "none"
    /\ runs = <<>>
    /\ ScopeParseIdle /\ HookIdle /\ EnvIdle /\ CallsIdle /\ SessionsIdle

InitRules == InitEngine(MaxTasks, RuleDecls)

\* Four tasks and more: two waves of two tasks each, with few declarations.
WaveDecls ==
    {[wave |-> w, create |-> d, modify |-> <<File_f>>, boundary |-> d] :
        w \in WaveNumbers, d \in {<<>>, <<File_f>>}}
    \cup {[wave |-> w, create |-> <<>>, modify |-> <<>>, boundary |-> <<>>] : w \in WaveNumbers}

InitWaves == InitEngine(MaxWaveTasks, WaveDecls)

CallValidateOwnershipRules ==
    /\ pc = "start"
    /\ \E hash_order \in HashOrders(all_boundary_violations(tasks)) :
           conflicts' = validate_ownership_rules(tasks, hash_order)
    /\ pc' = "done"
    /\ UNCHANGED <<scope1, scope2, overlap, tasks, plan, content, plan_file, runs>>
    /\ UNCHANGED <<scope_parse_vars, hook_vars, env_vars, call_vars>>
    /\ UNCHANGED session_vars

NextRules == CallValidateOwnershipRules

SpecRules == InitRules /\ [][NextRules]_vars

SpecWaves == InitWaves /\ [][NextRules]_vars

\* ------------------------------------------------- validate on a plan file

\* The values of the entries of an ownership block, as written in the plan.
Empty == <<>>
Dash == <<"-">>
Value_f == <<"f">>
Value_g == <<"g">>
Value_f_g == <<"f", ",", " ", "g">>
Value_g_f == <<"g", ",", " ", "f">>
Value_f_ClassA == <<"f", ":", ":", "A">>
Value_f_ClassB == <<"f", ":", ":", "B">>
\* Two tokens with nothing on one side of the delimiter.
Value_f_none_A == <<"f", ":", ":", ",", " ", ":", ":", "A">>

\* [create, modify, boundary] as written: a plain block, a task that MODIFYs its
\* BOUNDARY, blocks with an empty CREATE, MODIFY or BOUNDARY value, and scoped
\* MODIFY entries.
OwnershipBlocks ==
    {<<Value_f, Dash, Value_g>>,
     <<Dash, Value_f_g, Value_g_f>>,
     <<Empty, Value_f, Dash>>,
     <<Dash, Empty, Value_g_f>>,
     <<Value_f, Value_f_ClassA, Empty>>,
     <<Dash, Value_f_ClassB, Dash>>}

WaveTexts == {<<"1">>, <<"W", "2">>}
\* A wave field that is neither digits nor W and digits.
UnparseableWaveTexts == {<<"x">>}

\* A section of the plan: a task section, or a heading with prose under it.
TaskSections ==
    {[kind |-> "task", wave |-> w, ownership |-> TRUE,
      create |-> b[1], modify |-> b[2], boundary |-> b[3]] :
        w \in WaveTexts, b \in OwnershipBlocks}
\* A task section whose wave field cannot be parsed.
UnparseableWaveSections ==
    {[kind |-> "task", wave |-> w, ownership |-> TRUE,
      create |-> Value_f, modify |-> Dash, boundary |-> Value_g] :
        w \in UnparseableWaveTexts}
\* A task section with an identifier and a wave and no File Ownership block.
NoOwnershipSections ==
    {[kind |-> "task", wave |-> <<"1">>, ownership |-> FALSE,
      create |-> Empty, modify |-> Empty, boundary |-> Empty]}
ProseSection == [kind |-> "prose", wave |-> Empty, ownership |-> FALSE,
                 create |-> Empty, modify |-> Empty, boundary |-> Empty]
Sections ==
    TaskSections \cup UnparseableWaveSections \cup NoOwnershipSections \cup {ProseSection}

EntryLine(entry, value) ==
    entry \o (IF value = Empty THEN <<>> ELSE <<" ">> \o value) \o <<"\n">>

OwnershipText(section) ==
    IF section.ownership
    THEN OwnershipField \o <<"\n">>
         \o EntryLine(CreateEntry, section.create)
         \o EntryLine(ModifyEntry, section.modify)
         \o EntryLine(BoundaryEntry, section.boundary)
    ELSE <<>>

\* The text of the n-th section; its task is task-n.
SectionText(n, section) ==
    IF section.kind = "task"
    THEN <<"#", "#", "#", " ", "T", "\n">> \o TaskIdField \o <<DigitOf(n), "\n">>
         \o WaveField \o section.wave \o <<"\n">>
         \o OwnershipText(section)
         \o <<"\n">>
    ELSE <<"#", "#", "#", " ", "N", "\n", "x", "\n", "\n">>

PlanText(sections) ==
    <<"#", " ", "P", "\n", "\n">> \o Concat([n \in 1..Len(sections) |-> SectionText(n, sections[n])])

\* The environments of a call.  Plans of several sections are met as a recent
\* file in a clean repository; plans of one section also as an old file that is
\* not found, and where git is not installed.
InitPlanDirectory(max_sections) ==
    /\ directory \in {"missing", "exists"}
    /\ git \in GitStates
    /\ plan_age \in {"recent", "old"}
    /\ plan_file \in {"none", "unreadable", "undecodable", "readable"}
    /\ directory = "missing" => plan_file = "none"
    /\ plan_file = "none" => (plan_age = "old" /\ git # "untracked")
    /\ \E n \in 0..max_sections : plan \in [1..n -> Sections]
    /\ plan # <<>> =>
           /\ plan_file = "readable"
           /\ \/ git = "clean" /\ plan_age = "recent"
              \/ Len(plan) = 1 /\ git = "clean" /\ plan_age = "old"
              \/ Len(plan) = 1 /\ git = "unavailable" /\ plan_age = "recent"
    /\ content = PlanText(plan)
    /\ runs = <<>>
    /\ tasks = <<>>
    /\ conflicts = <<>>
    /\ pc = "start"
    /\ scope1 = None
    /\ scope2 = None
    /\ overlap = FALSE
    /\ raised = "None"
    /\ exits = <<>>
    /\ ScopeParseIdle /\ HookIdle /\ SessionsIdle

Init == InitPlanDirectory(MaxSections)

\* The outcomes of one call of validate() in the environment at hand, one per
\* iteration order of the Rule 4 sets: the exception that leaves the call or the
\* HookResult returned, and the call's locals tasks and conflicts (empty when
\* the call ends before it sets them).
validate_outcomes ==
    LET found == find_newest_file(git, directory, plan_file, plan_age)
        file_state == IF found.newest = "None" THEN "none" ELSE plan_file
    IN  IF found.raised # "None"
        THEN {[raised |-> found.raised, returned |-> <<>>, tasks |-> <<>>, conflicts |-> <<>>]}
        ELSE UNION {
                 {[raised |-> "None",
                   returned |-> <<validate(file_state, parsed, hash_order)>>,
                   tasks |-> parsed,
                   conflicts |-> validate_ownership_rules(parsed, hash_order)] :
                      hash_order \in HashOrders(all_boundary_violations(parsed))} :
                 parsed \in {IF file_state = "readable"
                             THEN parse_task_metadata(content) ELSE <<>>}}

\* One call of validate() on the plan directory, in a process of its own; a call
\* that raises returns no HookResult.
Validate ==
    /\ Len(runs) < MaxRuns
    /\ \E outcome \in validate_outcomes :
           /\ raised' = outcome.raised
           /\ runs' = runs \o outcome.returned
           /\ tasks' = outcome.tasks
           /\ conflicts' = outcome.conflicts
    /\ pc' = "done"
    /\ UNCHANGED <<scope1, scope2, overlap, plan, content, plan_file>>
    /\ UNCHANGED <<scope_parse_vars, hook_vars, env_vars, exits>>
    /\ UNCHANGED session_vars

Next == Validate

Spec == Init /\ [][Next]_vars

\* ------------------------------------------------ claims on the rule engine

TaskIndexes == 1..Len(tasks)
ConflictIndexes == 1..Len(conflicts)
NameOf(token) == parse_scope(token)[1]
ScopeOf(token) == parse_scope(token)[2]
Names(tokens) == {NameOf(tokens[i]) : i \in 1..Len(tokens)}
IndexOfTask(id) == CHOOSE t \in TaskIndexes : tasks[t].id = id

\* The overlap of two sub-scopes as the specification words it.
DottedPrefix(a, b) == \E k \in 0..Len(b) : b = a \o <<".">> \o SubSeq(b, Len(b) - k + 1, Len(b))
Overlaps(a, b) ==
    \/ a = None
    \/ b = None
    \/ a = b
    \/ DottedPrefix(a, b)
    \/ DottedPrefix(b, a)

Rule1Of(file) == {c \in ConflictIndexes : conflicts[c].rule = "1" /\ conflicts[c].file = file}
Rule23Of(id1, id2, wave, file) ==
    {c \in ConflictIndexes :
        /\ conflicts[c].rule = "2/3"
        /\ {conflicts[c].task1, conflicts[c].task2} = {id1, id2}
        /\ conflicts[c].wave = wave
        /\ conflicts[c].filename = file}
Rule4Of(id) == {c \in ConflictIndexes : conflicts[c].rule = "4" /\ conflicts[c].task_id = id}

Creators(file) == {t \in TaskIndexes : file \in Names(tasks[t].create)}
CreatedFiles == UNION {Names(tasks[t].create) : t \in TaskIndexes}
ModifiedFiles == UNION {Names(tasks[t].modify) : t \in TaskIndexes}
ScopesOn(t, file) ==
    {ScopeOf(tasks[t].modify[m]) : m \in {k \in 1..Len(tasks[t].modify) :
                                             NameOf(tasks[t].modify[k]) = file}}
BoundaryOverlap(t) == Names(tasks[t].modify) \cap Names(tasks[t].boundary)

\* C1: a resource in the CREATE list of two or more different tasks, whatever their
\* waves, gets exactly one Rule 1 violation, which names the resource and every
\* task that CREATEs it, in task order; a sub-scope suffix on a CREATE entry is ignored.
C1_Rule1OncePerResource ==
    pc = "done" =>
        \A file \in CreatedFiles :
            Cardinality(Creators(file)) >= 2 =>
                /\ Cardinality(Rule1Of(file)) = 1
                /\ \A c \in Rule1Of(file) :
                    LET ids == conflicts[c].task_ids
                    IN  /\ {IndexOfTask(ids[i]) : i \in 1..Len(ids)} = Creators(file)
                        /\ \A i, j \in 1..Len(ids) :
                               i < j => IndexOfTask(ids[i]) <= IndexOfTask(ids[j])

\* Two tasks of different waves, one CREATEs f::A and the other f, the ids in
\* descending order: one violation, naming the tasks in registry order.
C1_Witness ==
    /\ pc = "done"
    /\ Len(tasks) = 2
    /\ tasks[1].wave # tasks[2].wave
    /\ tasks[1].id = TaskId(2)
    /\ tasks[1].create = <<Scoped(File_f, ClassA), File_g>>
    /\ tasks[2].create = <<File_f>>
    /\ \E c \in ConflictIndexes :
           conflicts[c] = [rule |-> "1", file |-> File_f, task_ids |-> <<TaskId(2), TaskId(1)>>]

\* C2: two different tasks of one wave that MODIFY the same resource get a Rule 2/3
\* violation naming both, the wave and the resource if and only if their sub-scopes
\* overlap: one side unscoped, both the same, or one a dotted prefix of the other.
C2_Rule23IffOverlap ==
    pc = "done" =>
        \A a, b \in TaskIndexes : \A file \in ModifiedFiles :
            (/\ a # b
             /\ tasks[a].wave = tasks[b].wave
             /\ ScopesOn(a, file) # {}
             /\ ScopesOn(b, file) # {})
            => ( Rule23Of(tasks[a].id, tasks[b].id, tasks[a].wave, file) # {}
                 <=> \E sa \in ScopesOn(a, file), sb \in ScopesOn(b, file) : Overlaps(sa, sb) )

\* One wave holds ClassA against ClassA.x (reported) or ClassA.x against ClassA.y
\* (not reported).
C2_Witness ==
    /\ pc = "done"
    /\ Len(tasks) = 2
    /\ tasks[1].wave = tasks[2].wave
    /\ tasks[1].modify = <<Scoped(File_f, MethodX)>>
    /\ tasks[2].modify = <<Scoped(File_f, MethodY), File_g>>
    /\ \A c \in ConflictIndexes : conflicts[c].rule # "2/3"

\* C3: a task whose MODIFY names meet its BOUNDARY names (sub-scopes stripped) gets
\* exactly one Rule 4 violation, naming every resource they share; a task where
\* they do not meet gets none.
C3_Rule4PerTask ==
    pc = "done" =>
        \A t \in TaskIndexes :
            IF BoundaryOverlap(t) # {}
            THEN /\ Cardinality(Rule4Of(tasks[t].id)) = 1
                 /\ \A c \in Rule4Of(tasks[t].id) :
                        /\ Range(conflicts[c].violations) = BoundaryOverlap(t)
                        /\ Len(conflicts[c].violations) = Cardinality(BoundaryOverlap(t))
            ELSE Rule4Of(tasks[t].id) = {}

\* A task MODIFYing f::A.y and g with both f and g in its BOUNDARY is reported
\* for both, and the other task, with no BOUNDARY, is not reported.
C3_Witness ==
    /\ pc = "done"
    /\ Len(tasks) = 2
    /\ tasks[1].modify = <<Scoped(File_f, MethodY), File_g>>
    /\ tasks[1].boundary = <<File_g, File_f>>
    /\ tasks[2].boundary = <<>>
    /\ \E c \in ConflictIndexes :
           /\ conflicts[c].rule = "4"
           /\ conflicts[c].task_id = tasks[1].id
           /\ Range(conflicts[c].violations) = {File_f, File_g}
    /\ Rule4Of(tasks[2].id) = {}

Rule1Violated == \E file \in CreatedFiles : Cardinality(Creators(file)) >= 2
Rule23Violated ==
    \E a, b \in TaskIndexes : \E file \in ModifiedFiles :
        /\ a # b
        /\ tasks[a].wave = tasks[b].wave
        /\ \E sa \in ScopesOn(a, file), sb \in ScopesOn(b, file) : Overlaps(sa, sb)
Rule4Violated == \E t \in TaskIndexes : BoundaryOverlap(t) # {}
Reported(rule) == \E c \in ConflictIndexes : conflicts[c].rule = rule

\* C7: the conflict list holds the violations of Rule 1, of Rule 2/3 and of Rule 4
\* together: a violation of an earlier rule never suppresses one of a later rule.
C7_NoShortCircuit ==
    pc = "done" =>
        /\ Rule1Violated => Reported("1")
        /\ Rule23Violated => Reported("2/3")
        /\ Rule4Violated => Reported("4")

\* A plan that violates the three rules at once has all three in one list.
C7_Witness ==
    /\ pc = "done"
    /\ Rule1Violated /\ Rule23Violated /\ Rule4Violated
    /\ Reported("1") /\ Reported("2/3") /\ Reported("4")

RuleRank(rule) == IF rule = "1" THEN 1 ELSE IF rule = "2/3" THEN 2 ELSE 3
FirstTaskOfWave(wave) == Min({t \in TaskIndexes : tasks[t].wave = wave})

\* C9 as claimed: all Rule 1 violations first, then the Rule 2/3 violations grouped
\* per wave with the waves in ascending wave-number order, then the Rule 4
\* violations in task iteration order.
C9_WavesAscending ==
    pc = "done" =>
        \A i, j \in ConflictIndexes :
            i < j =>
                /\ RuleRank(conflicts[i].rule) <= RuleRank(conflicts[j].rule)
                /\ (conflicts[i].rule = "2/3" /\ conflicts[j].rule = "2/3")
                       => conflicts[i].wave <= conflicts[j].wave
                /\ (conflicts[i].rule = "4" /\ conflicts[j].rule = "4")
                       => IndexOfTask(conflicts[i].task_id) < IndexOfTask(conflicts[j].task_id)

\* C9 as amended: all Rule 1 violations first, then the Rule 2/3 violations grouped
\* per wave with the waves in the order in which task iteration first meets them,
\* then the Rule 4 violations in task iteration order.
C9_WavesAsFirstMet ==
    pc = "done" =>
        \A i, j \in ConflictIndexes :
            i < j =>
                /\ RuleRank(conflicts[i].rule) <= RuleRank(conflicts[j].rule)
                /\ (conflicts[i].rule = "2/3" /\ conflicts[j].rule = "2/3")
                       => FirstTaskOfWave(conflicts[i].wave) <= FirstTaskOfWave(conflicts[j].wave)
                /\ (conflicts[i].rule = "4" /\ conflicts[j].rule = "4")
                       => IndexOfTask(conflicts[i].task_id) < IndexOfTask(conflicts[j].task_id)

\* Wave 2 comes first in the plan and wave 1 second, each with two tasks that
\* MODIFY f, and the list holds violations of all three rules.
C9_Witness ==
    /\ pc = "done"
    /\ Len(tasks) = 4
    /\ tasks[1].wave = 2 /\ tasks[2].wave = 1 /\ tasks[3].wave = 1 /\ tasks[4].wave = 2
    /\ Reported("1") /\ Reported("4")
    /\ \E i, j \in ConflictIndexes :
           /\ i < j
           /\ conflicts[i].rule = "2/3" /\ conflicts[i].wave = 2
           /\ conflicts[j].rule = "2/3" /\ conflicts[j].wave = 1

\* ---------------------------------------------------- claims on validate

RunIndexes == 1..Len(runs)
\* The call found the plan file and read its text.
PlanRead ==
    /\ raised = "None"
    /\ find_newest_file(git, directory, plan_file, plan_age).newest # "None"
    /\ plan_file = "readable"
LastRun == runs[Len(runs)]
TaskOfSection(n) == tasks[CHOOSE t \in TaskIndexes : tasks[t].id = TaskPrefix \o <<DigitOf(n)>>]
DeclaresNone(value) == value = Empty \/ value = Dash
TaskSectionIndexes == {n \in 1..Len(plan) : plan[n].kind = "task"}
HasTaskOfSection(n) == \E t \in TaskIndexes : tasks[t].id = TaskPrefix \o <<DigitOf(n)>>
\* Every wave field of the plan is digits, or W and digits.
WavesParse == \A n \in TaskSectionIndexes : plan[n].wave \in WaveTexts

\* C5: a plan text in which the parser finds no task section validates as a pass
\* (result "continue") whose message says that no tasks were found; never a block.
C5_NoTasksPass ==
    (pc = "done" /\ PlanRead /\ tasks = <<>>) =>
        \A r \in RunIndexes :
            /\ runs[r].result = "continue"
            /\ runs[r].message.kind = "No tasks found (nothing to validate)"
            /\ runs[r].reason = NoText

\* A plan that holds one heading with prose under it has been validated.
C5_Witness ==
    /\ pc = "done"
    /\ PlanRead
    /\ plan = <<ProseSection>>
    /\ tasks = <<>>
    /\ LastRun.result = "continue"

\* C6: with at least one parsed task validate returns "continue" if and only if the
\* rules produce no conflict; on continue the message states the number of parsed
\* tasks, on block the reason holds one item per conflict, each a "Rule N
\* violation" with its resources and task ids.
C6_ContinueIffNoConflict ==
    (pc = "done" /\ PlanRead /\ tasks # <<>>) =>
        /\ LastRun.result \in {"continue", "block"}
        /\ LastRun.result = "continue" <=> conflicts = <<>>
        /\ LastRun.result = "continue" =>
               /\ LastRun.message.kind = "File ownership validation passed"
               /\ LastRun.message.n_tasks = Len(tasks)
        /\ LastRun.result = "block" =>
               /\ LastRun.reason.kind = "OWNERSHIP_CONFLICT_ERROR"
               /\ Len(LastRun.reason.items) = Len(conflicts)
               /\ \A i \in ConflictIndexes :
                      /\ LastRun.reason.items[i].conflict = conflicts[i]
                      /\ conflicts[i].rule \in {"1", "2/3", "4"}

\* A plan of two tasks with two conflicts has been blocked with two items.
C6_Witness ==
    /\ pc = "done"
    /\ PlanRead
    /\ Len(tasks) = 2
    /\ Len(conflicts) = 2
    /\ LastRun.result = "block"
    /\ Len(LastRun.reason.items) = 2

\* C8: validating the same plan text twice yields identical results, the text and
\* order of every conflict message included.
C8_Idempotent ==
    \A i, j \in RunIndexes : runs[i] = runs[j]

\* C10: a CREATE, MODIFY or BOUNDARY value that is a single dash or is empty, also
\* when further entries follow on the next lines, parses to an empty list.
C10_NoneDeclaredParsesEmpty ==
    (pc = "done" /\ PlanRead /\ WavesParse) =>
        \A n \in 1..Len(plan) :
            plan[n].kind = "task" =>
                /\ DeclaresNone(plan[n].create) => TaskOfSection(n).create = <<>>
                /\ DeclaresNone(plan[n].modify) => TaskOfSection(n).modify = <<>>
                /\ DeclaresNone(plan[n].boundary) => TaskOfSection(n).boundary = <<>>

\* C11: a task section whose wave field is present and is neither an integer nor W
\* and an integer still yields a task for the section's identifier, with wave 0:
\* the task is not dropped and takes no wave from another section.
C11_UnparseableWaveIsZero ==
    (pc = "done" /\ PlanRead) =>
        \A n \in TaskSectionIndexes :
            plan[n].wave \in UnparseableWaveTexts =>
                /\ HasTaskOfSection(n)
                /\ TaskOfSection(n).wave = 0

ConflictNames(c, id) ==
    \/ c.rule = "1" /\ id \in Range(c.task_ids)
    \/ c.rule = "2/3" /\ (c.task1 = id \/ c.task2 = id)
    \/ c.rule = "4" /\ c.task_id = id

\* C12: a task section with an identifier and a wave and no ownership block yields
\* a task with empty CREATE, MODIFY and BOUNDARY lists: the task exists, is counted
\* in the pass message, is in its wave's group, and no conflict names it.
C12_NoOwnershipBlockIsEmptyTask ==
    (pc = "done" /\ PlanRead /\ WavesParse) =>
        \A n \in TaskSectionIndexes :
            ~plan[n].ownership =>
                /\ HasTaskOfSection(n)
                /\ TaskOfSection(n).create = <<>>
                /\ TaskOfSection(n).modify = <<>>
                /\ TaskOfSection(n).boundary = <<>>
                /\ TaskOfSection(n).wave = int_or_zero(remove_W(plan[n].wave))
                /\ Len(tasks) = Cardinality(TaskSectionIndexes)
                /\ LastRun.result = "continue" => LastRun.message.n_tasks = Len(tasks)
                /\ TaskOfSection(n).id
                       \in Range(ValuesOf(wave_pairs(tasks), TaskOfSection(n).wave))
                /\ \A i \in ConflictIndexes : ~ConflictNames(conflicts[i], TaskOfSection(n).id)

\* A plan of a task without ownership block and a task with one, both of wave 1,
\* has passed with a count of two tasks.
C12_Witness ==
    /\ pc = "done"
    /\ PlanRead
    /\ Len(plan) = 2
    /\ plan[1] \in NoOwnershipSections
    /\ plan[2] \in TaskSections
    /\ plan[2].wave = <<"1">>
    /\ plan[2].modify = Value_f
    /\ Len(tasks) = 2
    /\ LastRun.result = "continue"
    /\ LastRun.message.n_tasks = 2

\* The call returned and find_newest_file had found no plan file.
NoPlanFound ==
    /\ raised = "None"
    /\ find_newest_file(git, directory, plan_file, plan_age).newest = "None"

\* C14: when file discovery finds no plan file validate returns "block"
\* (is_success false) with the "No plan file found" reason, and neither parses
\* nor validates anything.
C14_NoFileBlocks ==
    (pc = "done" /\ NoPlanFound) =>
        /\ runs # <<>>
        /\ \A r \in RunIndexes :
               /\ runs[r].result = "block"
               /\ ~is_success(runs[r])
               /\ runs[r].reason.kind = NO_FILE_ERROR
               /\ runs[r].message = NoText
        /\ tasks = <<>>
        /\ conflicts = <<>>

\* A plan file with a task section exists and is old and not new to git: the call
\* has not found it and has blocked.
C14_Witness ==
    /\ pc = "done"
    /\ directory = "exists"
    /\ plan_file = "readable"
    /\ plan_age = "old"
    /\ git = "clean"
    /\ Len(plan) = 1
    /\ plan[1] \in TaskSections
    /\ LastRun.result = "block"
    /\ LastRun.reason.kind = NO_FILE_ERROR

\* The plan was read and the parser found no task in it.
NoTasksParsed == PlanRead /\ tasks = <<>>

\* C15: structural absence is not an error: when no plan is found, as when no tasks
\* are parsed, the result is a pass-through or a nothing-to-validate message,
\* never a block.
C15_AbsenceNeverBlocks ==
    (pc = "done" /\ (NoPlanFound \/ NoTasksParsed)) =>
        \A r \in RunIndexes : runs[r].result # "block"

\* C15 as amended: no tasks parsed is a pass-through with the nothing-to-validate
\* message; no plan found is a block with the no-plan-file reason.
C15_AbsenceOutcomes ==
    pc = "done" =>
        /\ NoTasksParsed =>
               \A r \in RunIndexes :
                   /\ runs[r].result = "continue"
                   /\ runs[r].message.kind = "No tasks found (nothing to validate)"
                   /\ runs[r].message.kind # "File ownership validation passed"
        /\ NoPlanFound =>
               \A r \in RunIndexes :
                   /\ runs[r].result = "block"
                   /\ runs[r].reason.kind = NO_FILE_ERROR

\* The plan directory does not exist and the call has blocked.
C15_Witness ==
    /\ pc = "done"
    /\ directory = "missing"
    /\ NoPlanFound
    /\ LastRun.result = "block"

\* The call returned, find_newest_file had found the plan file, and reading or
\* decoding it failed.
PlanReadFailed ==
    /\ raised = "None"
    /\ find_newest_file(git, directory, plan_file, plan_age).newest # "None"
    /\ plan_file \in {"unreadable", "undecodable"}

\* C16: when the plan file is found and reading or decoding it fails, validate
\* returns "block" with a reason that includes the cause, and neither parses nor
\* evaluates rules; every other block is a list of rule violations or a missing
\* plan.
C16_ReadFailureBlocks ==
    pc = "done" =>
        /\ PlanReadFailed =>
               /\ runs # <<>>
               /\ \A r \in RunIndexes :
                      /\ runs[r].result = "block"
                      /\ runs[r].reason.kind = "Failed to read plan file"
                      /\ runs[r].reason.cause =
                             (IF plan_file = "unreadable" THEN "OSError" ELSE "UnicodeDecodeError")
               /\ tasks = <<>>
               /\ conflicts = <<>>
        /\ \A r \in RunIndexes :
               (runs[r].result = "block" /\ ~PlanReadFailed) =>
                   \/ runs[r].reason.kind = NO_FILE_ERROR /\ NoPlanFound
                   \/ /\ runs[r].reason.kind = "OWNERSHIP_CONFLICT_ERROR"
                      /\ runs[r].reason.items # <<>>

\* An old plan file that is new to git and is not valid UTF-8 has been found, and
\* the call has blocked with the decoding error.
C16_Witness ==
    /\ pc = "done"
    /\ plan_file = "undecodable"
    /\ git = "untracked"
    /\ plan_age = "old"
    /\ LastRun.result = "block"
    /\ LastRun.reason.cause = "UnicodeDecodeError"

\* C19: validate never throws past its own boundary: in every state of the
\* directory, of git and of the plan file a call returns a HookResult.
C19_ValidateNeverRaises ==
    pc = "done" => (raised = "None" /\ runs # <<>>)

\* ------------------------------------------- the validator as a process

InitCli == InitPlanDirectory(MaxCliSections)

\* BaseValidator.run: the exit code of the result, and 0 for every Exception that
\* leaves validate().
Run ==
    /\ Len(exits) < MaxRuns
    /\ \E outcome \in validate_outcomes :
           /\ runs' = runs \o outcome.returned
           /\ tasks' = outcome.tasks
           /\ conflicts' = outcome.conflicts
           /\ exits' = Append(exits,
                  [via |-> "run",
                   fault |-> outcome.raised,
                   stdout |-> <<>>,
                   uncaught |-> "None",
                   code |-> IF outcome.raised # "None" THEN 0
                            ELSE exit_code(outcome.returned[1])])
    /\ raised' = "None"
    /\ pc' = "done"
    /\ UNCHANGED <<scope1, scope2, overlap, plan, content, plan_file>>
    /\ UNCHANGED <<scope_parse_vars, hook_vars, env_vars>>
    /\ UNCHANGED session_vars

\* cli.validate_ownership, the command `forge validate ownership`: it calls
\* validator.validate() itself, prints the result's dictionary and exits with
\* the result's exit code; an exception of validate() leaves the command, and
\* the interpreter ends with a traceback and exit code 1.
ValidateOwnershipCommand ==
    /\ Len(exits) < MaxRuns
    /\ \E outcome \in validate_outcomes :
           /\ runs' = runs \o outcome.returned
           /\ tasks' = outcome.tasks
           /\ conflicts' = outcome.conflicts
           /\ raised' = outcome.raised
           /\ exits' = Append(exits,
                  IF outcome.raised # "None"
                  THEN [via |-> "cli", fault |-> outcome.raised, stdout |-> <<>>,
                        uncaught |-> outcome.raised, code |-> 1]
                  ELSE [via |-> "cli", fault |-> "None",
                        stdout |-> <<to_dict(outcome.returned[1])>>,
                        uncaught |-> "None", code |-> exit_code(outcome.returned[1])])
    /\ pc' = "done"
    /\ UNCHANGED <<scope1, scope2, overlap, plan, content, plan_file>>
    /\ UNCHANGED <<scope_parse_vars, hook_vars, env_vars>>
    /\ UNCHANGED session_vars

NextCli == Run \/ ValidateOwnershipCommand

SpecCli == InitCli /\ [][NextCli]_vars

ExitIndexes == 1..Len(exits)

\* C18: every result validate returns has ok true and result "continue" or
\* "block"; "continue" carries a message and no reason, "block" a reason and no
\* message; the dictionary printed omits the one that is absent.
C18_ResultShape ==
    /\ \A r \in RunIndexes :
           /\ runs[r].ok = TRUE
           /\ runs[r].result \in {"continue", "block"}
           /\ runs[r].result = "continue" =>
                  (runs[r].message # NoText /\ runs[r].reason = NoText)
           /\ runs[r].result = "block" =>
                  (runs[r].reason # NoText /\ runs[r].message = NoText)
    /\ \A e \in ExitIndexes :
           exits[e].stdout # <<>> =>
               /\ exits[e].stdout[1].ok = TRUE
               /\ exits[e].stdout[1].result = "continue" =>
                      /\ DOMAIN exits[e].stdout[1] = {"ok", "result", "message"}
                      /\ exits[e].stdout[1].message # NoText
               /\ exits[e].stdout[1].result = "block" =>
                      /\ DOMAIN exits[e].stdout[1] = {"ok", "result", "reason"}
                      /\ exits[e].stdout[1].reason # NoText

\* The command has printed the dictionary of a block for a plan whose task
\* MODIFYs a file of its BOUNDARY: it holds a reason and no message.
C18_Witness ==
    /\ pc = "done"
    /\ Len(plan) = 1
    /\ Len(conflicts) = 1
    /\ conflicts[1].rule = "4"
    /\ exits # <<>>
    /\ exits[Len(exits)].via = "cli"
    /\ exits[Len(exits)].stdout # <<>>
    /\ DOMAIN exits[Len(exits)].stdout[1] = {"ok", "result", "reason"}
    /\ exits[Len(exits)].stdout[1].reason.kind = "OWNERSHIP_CONFLICT_ERROR"

\* C20: a fault raised while validating is turned into an allow-through outcome
\* on every path by which the validation is invoked, the `validate ownership`
\* command included: exit code 0 and no uncaught exception.
C20_FaultsAllowedThrough ==
    \A e \in ExitIndexes :
        exits[e].fault # "None" =>
            /\ exits[e].code = 0
            /\ exits[e].uncaught = "None"

\* ------------------------------------------------------- parse_scope alone

TokenChars == {"f", " ", ":"}
Tokens == UNION {[1..n -> TokenChars] : n \in 0..MaxTokenLen}

InitScope ==
    /\ scope_token \in Tokens
    /\ scope_parts = <<>>
    /\ pc = "start"
    /\ scope1 = None
    /\ scope2 = None
    /\ overlap = FALSE
    /\ tasks = <<>>
    /\ conflicts = <<>>
    /\ plan = <<>>
    /\ content = <<>>
    /\ plan_file = "none"
    /\ runs = <<>>
    /\ HookIdle /\ EnvIdle /\ CallsIdle /\ SessionsIdle

CallParseScope ==
    /\ pc = "start"
    /\ scope_parts' = parse_scope(scope_token)
    /\ pc' = "done"
    /\ UNCHANGED <<scope1, scope2, overlap, tasks, conflicts, plan, content, plan_file, runs>>
    /\ UNCHANGED <<scope_token, hook_vars, env_vars, call_vars>>
    /\ UNCHANGED session_vars

NextScope == CallParseScope

SpecScope == InitScope /\ [][NextScope]_vars

Delimiter == <<":", ":">>
DelimiterAt(text, k) == k + 1 <= Len(text) /\ SubSeq(text, k, k + 1) = Delimiter
HasDelimiter(text) == \E k \in 1..Len(text) : DelimiterAt(text, k)
IsTrimmed(text) ==
    text = <<>> \/ (text[1] \notin Whitespace /\ text[Len(text)] \notin Whitespace)
\* trimmed is text without its leading and trailing whitespace.
TrimOf(text, trimmed) ==
    /\ IsTrimmed(trimmed)
    /\ \E i \in 1..(Len(text) + 1), j \in 0..Len(text) :
           /\ trimmed = SubSeq(text, i, j)
           /\ \A k \in 1..Len(text) : (k < i \/ k > j) => text[k] \in Whitespace
\* The result is the two halves of the token around its first "::", trimmed, and
\* (trimmed token, none) exactly when the token holds no "::".
SplitsAtFirstDelimiter ==
    /\ scope_parts[2] = None <=> ~HasDelimiter(scope_token)
    /\ ~HasDelimiter(scope_token) => TrimOf(scope_token, scope_parts[1])
    /\ \A k \in 1..Len(scope_token) :
           (DelimiterAt(scope_token, k) /\ \A h \in 1..(k - 1) : ~DelimiterAt(scope_token, h)) =>
               /\ TrimOf(SubSeq(scope_token, 1, k - 1), scope_parts[1])
               /\ TrimOf(SubSeq(scope_token, k + 2, Len(scope_token)), scope_parts[2])
\* The token is name + "::" + scope, with "::" at position k.
BuiltFrom(k, name, scope) ==
    /\ DelimiterAt(scope_token, k)
    /\ name = SubSeq(scope_token, 1, k - 1)
    /\ scope = SubSeq(scope_token, k + 2, Len(scope_token))
    /\ name # <<>> /\ IsTrimmed(name) /\ ~HasDelimiter(name)
    /\ scope # <<>> /\ IsTrimmed(scope)
Halves(k) == <<SubSeq(scope_token, 1, k - 1), SubSeq(scope_token, k + 2, Len(scope_token))>>

\* C13: parse_scope splits at the first "::" only, trims both halves, returns scope
\* none exactly when the token holds no "::", and returns (name, scope) for every
\* token name + "::" + scope of trimmed non-empty parts with no "::" in name.
C13_ParseScopeRoundTrip ==
    pc = "done" =>
        /\ SplitsAtFirstDelimiter
        /\ \A k \in 1..Len(scope_token) :
               BuiltFrom(k, Halves(k)[1], Halves(k)[2]) => scope_parts = Halves(k)

\* C13 as amended: the same, the round trip for names that do not end in ":".
C13_ParseScopeRoundTripNoColonEnd ==
    pc = "done" =>
        /\ SplitsAtFirstDelimiter
        /\ \A k \in 1..Len(scope_token) :
               (BuiltFrom(k, Halves(k)[1], Halves(k)[2]) /\ scope_token[k - 1] # ":") =>
                   scope_parts = Halves(k)

\* "f::f:: " has been parsed: the second "::" stays in the scope, which is trimmed.
C13_Witness ==
    /\ pc = "done"
    /\ scope_token = <<"f", ":", ":", "f", ":">>
    /\ scope_parts = << <<"f">>, <<"f", ":">> >>

\* -------------------------------------------------------- HookResult alone

\* The texts a message or a reason may hold, None included.
HookTexts ==
    {NoText,
     [NoText EXCEPT !.kind = "No tasks found (nothing to validate)"],
     [NoText EXCEPT !.kind = "File ownership validation passed", !.n_tasks = 1],
     [NoText EXCEPT !.kind = NO_FILE_ERROR],
     read_failure("unreadable")}
HookResults ==
    {HookResult(ok, result, message, reason) :
        ok \in BOOLEAN, result \in {"continue", "block"},
        message \in HookTexts, reason \in HookTexts}

InitHookResult ==
    /\ hook_result \in HookResults
    /\ hook_is_success = FALSE
    /\ hook_exit_code = 0
    /\ pc = "start"
    /\ scope1 = None
    /\ scope2 = None
    /\ overlap = FALSE
    /\ tasks = <<>>
    /\ conflicts = <<>>
    /\ plan = <<>>
    /\ content = <<>>
    /\ plan_file = "none"
    /\ runs = <<>>
    /\ ScopeParseIdle /\ EnvIdle /\ CallsIdle /\ SessionsIdle

\* The two properties of a HookResult are read.
ReadExitCode ==
    /\ pc = "start"
    /\ hook_is_success' = is_success(hook_result)
    /\ hook_exit_code' = exit_code(hook_result)
    /\ pc' = "done"
    /\ UNCHANGED <<scope1, scope2, overlap, tasks, conflicts, plan, content, plan_file, runs>>
    /\ UNCHANGED <<hook_result, scope_parse_vars, env_vars, call_vars>>
    /\ UNCHANGED session_vars

NextHookResult == ReadExitCode

SpecHookResult == InitHookResult /\ [][NextHookResult]_vars

\* C17: exit_code is 0 exactly when result is "continue" and 1 exactly when it is
\* "block", and is_success holds exactly when result is "continue", whatever the
\* ok, message and reason fields hold.
C17_ExitCodeFollowsResult ==
    pc = "done" =>
        /\ hook_exit_code = 0 <=> hook_result.result = "continue"
        /\ hook_exit_code = 1 <=> hook_result.result = "block"
        /\ hook_is_success <=> hook_result.result = "continue"

\* A result "continue" with ok false, no message and a reason has exit code 0.
C17_Witness ==
    /\ pc = "done"
    /\ hook_result.result = "continue"
    /\ ~hook_result.ok
    /\ hook_result.message = NoText
    /\ hook_result.reason # NoText
    /\ hook_exit_code = 0
    /\ hook_is_success

\* ---------------------------------------------------- scopes_overlap alone

ScopeChars == {"A", "B", "."}
ScopeStrings == UNION {[1..n -> ScopeChars] : n \in 0..MaxScopeLen}
ScopeArgs == ScopeStrings \cup {None}

InitOverlap ==
    /\ scope1 \in ScopeArgs
    /\ scope2 \in ScopeArgs
    /\ overlap = FALSE
    /\ tasks = <<>>
    /\ conflicts = <<>>
    /\ plan = <<>>
    /\ content = <<>>
    /\ plan_file = "none"
    /\ runs = <<>>
    /\ pc = "start"
    /\ ScopeParseIdle /\ HookIdle /\ EnvIdle /\ CallsIdle /\ SessionsIdle

CallScopesOverlap ==
    /\ pc = "start"
    /\ overlap' = scopes_overlap(scope1, scope2)
    /\ pc' = "done"
    /\ UNCHANGED <<scope1, scope2, tasks, conflicts, plan, content, plan_file, runs>>
    /\ UNCHANGED <<scope_parse_vars, hook_vars, env_vars, call_vars>>
    /\ UNCHANGED session_vars

NextOverlap == CallScopesOverlap

SpecOverlap == InitOverlap /\ [][NextOverlap]_vars

\* C4: scopes_overlap(a, b) holds exactly when a is none, b is none, a = b, or one
\* of the two is the other followed by "." and a further suffix; it is symmetric.
DottedPrefixIn(a, b) == \E suffix \in ScopeStrings : b = a \o <<".">> \o suffix

C4_ScopesOverlapExact ==
    pc = "done" =>
        /\ overlap = ( \/ scope1 = None
                       \/ scope2 = None
                       \/ scope1 = scope2
                       \/ DottedPrefixIn(scope1, scope2)
                       \/ DottedPrefixIn(scope2, scope1) )
        /\ overlap = scopes_overlap(scope2, scope1)

\* ClassA against ClassAB: a character prefix with no "." boundary, decided.
C4_Witness ==
    /\ pc = "done"
    /\ overlap = FALSE
    /\ scope1 = <<"A">>
    /\ scope2 = <<"A", "B">>

\* ------------------------- plans whose sections declare their identifiers

\* A task section as written: the number of its identifier, its wave field
\* (absent when wave_field is FALSE) and its ownership block.
DeclaredSection(id, wave_field, wave, block) ==
    [kind |-> "task", id |-> id, wave_field |-> wave_field, wave |-> wave, ownership |-> TRUE,
     create |-> block[1], modify |-> block[2], boundary |-> block[3]]

DeclaredSectionText(section) ==
    <<"#", "#", "#", " ", "T", "\n">> \o TaskIdField \o <<DigitOf(section.id), "\n">>
    \o (IF section.wave_field THEN WaveField \o section.wave \o <<"\n">> ELSE <<>>)
    \o OwnershipText(section)
    \o <<"\n">>

DeclaredPlanText(sections) ==
    <<"#", " ", "P", "\n", "\n">>
    \o Concat([n \in 1..Len(sections) |-> DeclaredSectionText(sections[n])])

\* A recent, readable plan file in a clean repository, one of Plans.
InitDeclaredPlan(Plans) ==
    /\ directory = "exists"
    /\ git = "clean"
    /\ plan_age = "recent"
    /\ plan_file = "readable"
    /\ plan \in Plans
    /\ content = DeclaredPlanText(plan)
    /\ runs = <<>>
    /\ tasks = <<>>
    /\ conflicts = <<>>
    /\ pc = "start"
    /\ scope1 = None
    /\ scope2 = None
    /\ overlap = FALSE
    /\ raised = "None"
    /\ exits = <<>>
    /\ ScopeParseIdle /\ HookIdle /\ SessionsIdle

\* Sections that may share an identifier.
IdNumbers == {1, 2}
IdBlocks ==
    {<<Value_f, Dash, Value_g>>,
     <<Dash, Value_f, Dash>>,
     <<Dash, Value_f_g, Value_g_f>>}
IdSections ==
    {DeclaredSection(id, TRUE, w, b) : id \in IdNumbers, w \in WaveTexts, b \in IdBlocks}

IdPlans == UNION {[1..n -> IdSections] : n \in 0..MaxIdSections}

InitIds == InitDeclaredPlan(IdPlans)

SpecIds == InitIds /\ [][Next]_vars

\* The list an entry's value declares.
ListOf(value) ==
    IF value = Value_f THEN <<File_f>>
    ELSE IF value = Value_g THEN <<File_g>>
    ELSE IF value = Value_f_g THEN <<File_f, File_g>>
    ELSE IF value = Value_g_f THEN <<File_g, File_f>>
    ELSE IF value = Value_f_ClassA THEN <<Scoped(File_f, ClassA)>>
    ELSE IF value = Value_f_ClassB THEN <<Scoped(File_f, ClassB)>>
    ELSE IF value = Value_f_none_A THEN <<File_f \o Delimiter, Delimiter \o ClassA>>
    ELSE <<>>
\* The wave a wave field declares.
WaveOf(wave) == IF wave \in {<<"1">>, <<"W", "1">>} THEN 1 ELSE 2
IdOf(section) == TaskPrefix \o <<DigitOf(section.id)>>
SectionsOf(id) == {n \in 1..Len(plan) : plan[n].id = id}
TasksOf(id) == {t \in TaskIndexes : tasks[t].id = TaskPrefix \o <<DigitOf(id)>>}
DeclaredIds == {plan[n].id : n \in 1..Len(plan)}
\* The record the section's own fields declare.
TaskDeclaredBy(section) ==
    Task(IdOf(section), WaveOf(section.wave),
         ListOf(section.create), ListOf(section.modify), ListOf(section.boundary))
\* The later section of every identifier, in the order the identifiers first occur.
LaterSections ==
    LET ids == Keys([n \in 1..Len(plan) |-> plan[n].id])
    IN  [k \in 1..Len(ids) |-> plan[Max(SectionsOf(ids[k]))]]
LaterTasks == [k \in 1..Len(LaterSections) |-> TaskDeclaredBy(LaterSections[k])]

\* C21: when two task sections share an identifier the registry holds exactly one
\* record for it, with the wave and the lists of the later section; the earlier
\* section's declarations take part in no rule, no conflict is raised for the
\* collision, and the pass message counts the identifier once.
C21_DuplicateIdOverwrites ==
    (pc = "done" /\ PlanRead) =>
        /\ \A id \in DeclaredIds :
               /\ Cardinality(TasksOf(id)) = 1
               /\ \A t \in TasksOf(id) : tasks[t] = TaskDeclaredBy(plan[Max(SectionsOf(id))])
        /\ Len(tasks) = Cardinality(DeclaredIds)
        /\ \E hash_order \in HashOrders(all_boundary_violations(LaterTasks)) :
               conflicts = validate_ownership_rules(LaterTasks, hash_order)
        /\ LastRun.result = "continue" => LastRun.message.n_tasks = Cardinality(DeclaredIds)

\* Two sections of task-1: the first MODIFYs its BOUNDARY in wave 1, the second
\* does not and is of wave 2; the plan has passed with one task of wave 2.
C21_Witness ==
    /\ pc = "done"
    /\ PlanRead
    /\ Len(plan) = 2
    /\ plan[1] = DeclaredSection(1, TRUE, <<"1">>, <<Dash, Value_f_g, Value_g_f>>)
    /\ plan[2] = DeclaredSection(1, TRUE, <<"W", "2">>, <<Dash, Value_f, Dash>>)
    /\ tasks = <<Task(TaskId(1), 2, <<>>, <<File_f>>, <<>>)>>
    /\ conflicts = <<>>
    /\ LastRun.result = "continue"
    /\ LastRun.message.n_tasks = 1

\* --------------------------------- plans with and without their wave fields

\* A wave field as written, or no wave field at all.
FieldWaves ==
    {[wave_field |-> TRUE, wave |-> <<"1">>],
     [wave_field |-> TRUE, wave |-> <<"W", "1">>],
     [wave_field |-> TRUE, wave |-> <<"W", "2">>],
     [wave_field |-> FALSE, wave |-> Empty]}
FieldBlocks ==
    {<<Dash, Value_f, Dash>>,
     <<Value_g, Value_f_ClassA, Value_g>>,
     <<Dash, Value_f_none_A, Dash>>}
\* The n-th section declares task-n.
FieldPlans ==
    UNION {{[k \in 1..n |-> DeclaredSection(k, d[k][1].wave_field, d[k][1].wave, d[k][2])] :
               d \in [1..n -> FieldWaves \X FieldBlocks]} :
           n \in 0..MaxFieldSections}

InitFields == InitDeclaredPlan(FieldPlans)

SpecFields == InitFields /\ [][Next]_vars

Declarations(t) ==
    Range(tasks[t].create) \cup Range(tasks[t].modify) \cup Range(tasks[t].boundary)

\* C22: for every declaration the parser and parse_scope produce from a plan text
\* the resource name is a non-empty string and the sub-scope is none or a
\* non-empty string.
C22_NamesAndScopesNonEmpty ==
    (pc = "done" /\ PlanRead) =>
        \A t \in TaskIndexes : \A token \in Declarations(t) :
            /\ NameOf(token) # <<>>
            /\ ScopeOf(token) = None \/ ScopeOf(token) # <<>>

\* Every section of the plan has a wave field.
AllWaveFields == \A n \in 1..Len(plan) : plan[n].wave_field

\* C25: a wave field written n and a wave field written W<n> both parse to the
\* integer n, so that a task declared W1 and a task declared 1 are in the same
\* wave and are checked against each other by Rule 2/3.
C25_WaveNormalized ==
    (pc = "done" /\ PlanRead /\ AllWaveFields) =>
        /\ \A n \in 1..Len(plan) :
               /\ TasksOf(n) # {}
               /\ \A t \in TasksOf(n) : tasks[t].wave = WaveOf(plan[n].wave)
        /\ \A a, b \in 1..Len(plan) :
               (a < b /\ plan[a].wave = <<"W", "1">> /\ plan[b].wave = <<"1">>) =>
                   /\ {IdOf(plan[a]), IdOf(plan[b])} \subseteq Range(ValuesOf(wave_pairs(tasks), 1))
                   /\ (plan[a].modify = Value_f /\ plan[b].modify = Value_f)
                          => Rule23Of(IdOf(plan[a]), IdOf(plan[b]), 1, File_f) # {}

\* A section of wave W1 and a section of wave 1, both MODIFYing f, have been
\* reported as a Rule 2/3 violation of wave 1.
C25_Witness ==
    /\ pc = "done"
    /\ PlanRead
    /\ Len(plan) = 2
    /\ plan[1] = DeclaredSection(1, TRUE, <<"W", "1">>, <<Dash, Value_f, Dash>>)
    /\ plan[2] = DeclaredSection(2, TRUE, <<"1">>, <<Dash, Value_f, Dash>>)
    /\ tasks[1].wave = 1
    /\ tasks[2].wave = 1
    /\ Rule23Of(TaskId(1), TaskId(2), 1, File_f) # {}

\* C26: every heading-delimited section that holds an identifier field and a wave
\* field yields a task with the section's own identifier, its own wave and the
\* lists of its own ownership block, whatever the neighbouring sections hold: a
\* preceding section with an identifier and no wave field neither removes the
\* section's task nor takes its wave.
C26_SectionYieldsOwnTask ==
    (pc = "done" /\ PlanRead) =>
        /\ \A n \in 1..Len(plan) :
               plan[n].wave_field =>
                   /\ TasksOf(n) # {}
                   /\ \A t \in TasksOf(n) : tasks[t] = TaskDeclaredBy(plan[n])
        /\ \A n \in 1..(Len(plan) - 1) :
               (~plan[n].wave_field /\ plan[n + 1].wave_field) =>
                   \A t \in TasksOf(n) : tasks[t].wave # WaveOf(plan[n + 1].wave)

\* ------------------------ tasks that name a resource more than once

RepeatModifyLists ==
    {<<>>, <<File_f>>, <<File_f, File_f>>,
     <<Scoped(File_f, ClassA), Scoped(File_f, MethodX)>>,
     <<Scoped(File_f, ClassA), Scoped(File_f, ClassB)>>}
RepeatCreateLists == {<<>>, <<File_f>>, <<File_f, Scoped(File_f, ClassA)>>}
RepeatDecls ==
    {[wave |-> w, create |-> c, modify |-> m, boundary |-> <<>>] :
        w \in WaveNumbers, m \in RepeatModifyLists, c \in RepeatCreateLists}

InitRepeats == InitEngine(MaxRepeatTasks, RepeatDecls)

SpecRepeats == InitRepeats /\ [][NextRules]_vars

TasksOfWave(wave) == {t \in TaskIndexes : tasks[t].wave = wave}

\* C23: Rule 2/3 is applied within a wave only: two tasks of different waves that
\* MODIFY the same resource, with any sub-scopes, never get a Rule 2/3 violation,
\* and a wave of fewer than two tasks gets none whatever its task declares.
C23_Rule23WithinWaveOnly ==
    pc = "done" =>
        /\ \A a, b \in TaskIndexes :
               tasks[a].wave # tasks[b].wave =>
                   \A c \in ConflictIndexes :
                       conflicts[c].rule = "2/3" =>
                           {conflicts[c].task1, conflicts[c].task2} # {tasks[a].id, tasks[b].id}
        /\ \A c \in ConflictIndexes :
               conflicts[c].rule = "2/3" =>
                   /\ Cardinality(TasksOfWave(conflicts[c].wave)) >= 2
                   /\ tasks[IndexOfTask(conflicts[c].task1)].wave = conflicts[c].wave
                   /\ tasks[IndexOfTask(conflicts[c].task2)].wave = conflicts[c].wave

\* Two tasks of different waves MODIFY f, the first one twice with nested
\* sub-scopes, and no Rule 2/3 violation is in the list.
C23_Witness ==
    /\ pc = "done"
    /\ Len(tasks) = 2
    /\ tasks[1].wave # tasks[2].wave
    /\ tasks[1].modify = <<Scoped(File_f, ClassA), Scoped(File_f, MethodX)>>
    /\ tasks[2].modify = <<File_f>>
    /\ ~Reported("2/3")

\* C24: within one wave and one resource each pair of conflicting tasks is
\* reported by at most one Rule 2/3 violation, in either order of the pair, also
\* when a task lists the resource more than once in its MODIFY list.
C24_PairReportedOnce ==
    pc = "done" =>
        \A i, j \in ConflictIndexes :
            (/\ i # j
             /\ conflicts[i].rule = "2/3"
             /\ conflicts[j].rule = "2/3"
             /\ conflicts[i].wave = conflicts[j].wave
             /\ conflicts[i].filename = conflicts[j].filename)
            => {conflicts[i].task1, conflicts[i].task2} # {conflicts[j].task1, conflicts[j].task2}

\* C27: every Rule 2/3 violation names two different tasks, so the MODIFY list of
\* a single task produces none, whatever the number of tasks in its wave.
C27_Rule23NamesTwoTasks ==
    pc = "done" =>
        \A c \in ConflictIndexes :
            conflicts[c].rule = "2/3" => conflicts[c].task1 # conflicts[c].task2

\* C28: Rule 1 fires only for a resource that at least two different tasks CREATE,
\* and every Rule 1 violation lists each claiming task once.
C28_Rule1NeedsTwoTasks ==
    pc = "done" =>
        \A c \in ConflictIndexes :
            conflicts[c].rule = "1" =>
                /\ Cardinality(Creators(conflicts[c].file)) >= 2
                /\ \A i, j \in 1..Len(conflicts[c].task_ids) :
                       i # j => conflicts[c].task_ids[i] # conflicts[c].task_ids[j]

\* A task CREATEs a resource that another task of its wave MODIFYs.
CreateMeetsModify ==
    \E a, b \in TaskIndexes :
        /\ a # b
        /\ tasks[a].wave = tasks[b].wave
        /\ Names(tasks[a].create) \cap Names(tasks[b].modify) # {}
\* A task CREATEs a resource of its own BOUNDARY.
CreateMeetsOwnBoundary ==
    \E t \in TaskIndexes : Names(tasks[t].create) \cap Names(tasks[t].boundary) # {}

\* C29: CREATE declarations take part in Rule 1 only: when a task CREATEs a
\* resource that a different task of its wave MODIFYs, or a resource of its own
\* BOUNDARY, and the plan has no other overlap, there is no conflict and the plan
\* validates as a pass.
C29_CreateOnlyInRule1 ==
    (/\ pc = "done"
     /\ CreateMeetsModify \/ CreateMeetsOwnBoundary
     /\ ~Rule1Violated /\ ~Rule23Violated /\ ~Rule4Violated)
    => /\ conflicts = <<>>
       /\ \A hash_order \in HashOrders(all_boundary_violations(tasks)) :
              /\ validate("readable", tasks, hash_order).result = "continue"
              /\ validate("readable", tasks, hash_order).message.kind
                     = "File ownership validation passed"

\* Two tasks of one wave: the first CREATEs f::A and g, both in its BOUNDARY, and
\* the second MODIFYs f; the conflict list is empty.
C29_Witness ==
    /\ pc = "done"
    /\ Len(tasks) = 2
    /\ tasks[1].wave = tasks[2].wave
    /\ tasks[1].create = <<Scoped(File_f, ClassA), File_g>>
    /\ tasks[1].boundary = <<File_g, File_f>>
    /\ tasks[1].modify = <<>>
    /\ tasks[2].create = <<>>
    /\ tasks[2].modify = <<File_f>>
    /\ CreateMeetsModify /\ CreateMeetsOwnBoundary
    /\ conflicts = <<>>

\* ------------------------------------------------ the session store in use

\* The paths mark_processed is called with: the session files there are, and a
\* path that does not exist.
MissingPath == <<0, "missing", "none">>
SessionPaths == DOMAIN session_files \cup {MissingPath}

InitSessions ==
    /\ SessionsIdle
    /\ scope1 = None
    /\ scope2 = None
    /\ overlap = FALSE
    /\ tasks = <<>>
    /\ conflicts = <<>>
    /\ plan = <<>>
    /\ content = <<>>
    /\ plan_file = "none"
    /\ runs = <<>>
    /\ pc = "start"
    /\ ScopeParseIdle /\ HookIdle /\ EnvIdle /\ CallsIdle

\* SessionManager.save_session, both readings of the clock in the second now:
\* the session record is written under its file name, the statistics are loaded,
\* updated and saved, and the project's session count is set.
SaveSession ==
    /\ stats_file.total < MaxSessions
    /\ \E session_id \in SessionIds, cwd \in Cwds, now \in {clock, clock + 1} :
           LET project_slug == get_project_slug(cwd)
               projects == register_project(projects_file, cwd)
               filepath == session_filename(now, project_slug, session_id)
               stats == SessionStats_update(stats_file, project_slug, now)
           IN  /\ now <= MaxClock
               /\ clock' = now
               /\ session_files' = put(session_files, filepath,
                      [session_id |-> session_id, project |-> project_slug, cwd |-> cwd,
                       captured_at |-> now, processed |-> FALSE, processed_at |-> "None"])
               /\ stats_file' = stats
               /\ projects_file' = put(projects, project_slug,
                      [projects[project_slug] EXCEPT
                          !.session_count = get(stats.by_project, project_slug, 0)])
               /\ session_returned' = filepath
    /\ pc' = "done"
    /\ UNCHANGED <<scope1, scope2, overlap, tasks, conflicts, plan, content, plan_file, runs>>
    /\ UNCHANGED <<scope_parse_vars, hook_vars, env_vars, call_vars>>

\* SessionManager.mark_processed: False for a path that does not exist; else the
\* record gets processed = True and processed_at, and the statistics are loaded,
\* counted up and saved.
MarkProcessed ==
    /\ stats_file.processed < MaxMarks
    /\ \E session_file \in SessionPaths, now \in {clock, clock + 1} :
           /\ now <= MaxClock
           /\ clock' = now
           /\ IF session_file \notin DOMAIN session_files
              THEN /\ session_returned' = FALSE
                   /\ UNCHANGED <<session_files, stats_file>>
              ELSE /\ session_files' = put(session_files, session_file,
                          [session_files[session_file] EXCEPT
                              !.processed = TRUE, !.processed_at = now])
                   /\ stats_file' = SessionStats_mark_processed(stats_file)
                   /\ session_returned' = TRUE
    /\ pc' = "done"
    /\ UNCHANGED projects_file
    /\ UNCHANGED <<scope1, scope2, overlap, tasks, conflicts, plan, content, plan_file, runs>>
    /\ UNCHANGED <<scope_parse_vars, hook_vars, env_vars, call_vars>>

NextSessions == SaveSession \/ MarkProcessed

SpecSessions == InitSessions /\ [][NextSessions]_vars

ProcessedFiles == {f \in DOMAIN session_files : session_files[f].processed}

\* C30: after any sequence of save_session and mark_processed calls on an
\* initialized store the stored processed count never exceeds the stored total
\* and equals the number of session files whose processed flag is true (so that
\* marking a session a second time changes no counter).
C30_ProcessedCountMatchesFiles ==
    /\ stats_file.processed <= stats_file.total
    /\ stats_file.processed = Cardinality(ProcessedFiles)

====
